---- MODULE Spec2Model ----
(***************************************************************************)
(* Model of the ticket-check action (src/index.ts): one run of `run()`,   *)
(* stage by stage, over a pull-request context and an action              *)
(* configuration.  Text values are sequences of one-character strings.    *)
(***************************************************************************)
EXTENDS Integers, Sequences, FiniteSets, TLC

VARIABLES ctx, cfg, pc, titleCheck, sender, quiet, exemptUsers,
          branchCheck, bodyCheck, id, calls, failures, outcome, trail, fmt

vars == <<ctx, cfg, pc, titleCheck, sender, quiet, exemptUsers,
          branchCheck, bodyCheck, id, calls, failures, outcome, trail, fmt>>

(***************************************************************************)
(* Text literals.                                                          *)
(***************************************************************************)
sAddLoginFlow == <<"A","d","d"," ","l","o","g","i","n"," ","f","l","o","w">>
sTick1Fix == <<"T","I","C","K","-","1"," ","f","i","x">>
sFeatureTick42 == <<"f","e","a","t","u","r","e","/","T","I","C","K","-","4","2","-","l","o","g","i","n">>
sMain == <<"m","a","i","n">>
sLowerTick == <<"w","i","p","/","t","i","c","k","-","4","2">>
sFixesTick9 == <<"F","i","x","e","s"," ","T","I","C","K","-","9">>
sNoRef == <<"n","o"," ","r","e","f">>
sLowerBody == <<"s","e","e"," ","t","i","c","k","-","9">>
sNullText == <<"n","u","l","l">>
sFoo == <<"f","o","o">>
sFooBot == <<"f","o","o","[","b","o","t","]">>
sInnerBot == <<"x","[","b","o","t","]","y">>
sOnlyBot == <<"[","b","o","t","]">>
sBar == <<"b","a","r">>
sMixedBody == <<"t","i","c","k","-","9"," ","T","I","C","K","-","5">>
sClosesBody == <<"T","I","C","K","-","5"," ","c","l","o","s","e","s"," ","T","I","C","K","-","9">>
sTick5 == <<"T","I","C","K","-","5">>
sExPadded == <<" ","b","a","r"," ",",","f","o","o">>
sTrue == <<"t","r","u","e">>
sFalse == <<"f","a","l","s","e">>
sTICK == <<"T","I","C","K">>
sJIRA == <<"J","I","R","A">>
s1234 == <<"1","2","3","4">>
sFixBug == <<"F","i","x"," ","b","u","g">>
sPrefixTok == <<"%","p","r","e","f","i","x","%">>
sIdTok == <<"%","i","d","%">>
sTitleTok == <<"%","t","i","t","l","e","%">>
sBotTok == <<"[","b","o","t","]">>
sE2E == <<"[","T","I","C","K","-","4","2","]"," ","A","d","d"," ","l","o","g","i","n"," ","f","l","o","w">>
sE2EActual == <<"[","T","I","C","K","-","T","I","C","K","-","4","2","]"," ","A","d","d"," ","l","o","g","i","n"," ","f","l","o","w">>
sJiraOut == <<"J","I","R","A","-","1","2","3","4",":"," ","F","i","x"," ","b","u","g">>
sTick42 == <<"T","I","C","K","-","4","2">>
sTick9 == <<"T","I","C","K","-","9">>
sUpper == <<"A","B","C","D","E","F","G","H","I","J","K","L","M","N","O","P","Q","R","S","T","U","V","W","X","Y","Z">>
sLower == <<"a","b","c","d","e","f","g","h","i","j","k","l","m","n","o","p","q","r","s","t","u","v","w","x","y","z">>
sDigits == <<"0","1","2","3","4","5","6","7","8","9">>

Range(s) == {s[k] : k \in 1..Len(s)}

Max(S) == CHOOSE m \in S : \A n \in S : n <= m

Min(S) == CHOOSE m \in S : \A n \in S : m <= n

(***************************************************************************)
(* String.prototype.indexOf: the first position at which t occurs in s,   *)
(* 0 when it does not occur.                                               *)
(***************************************************************************)
OccursAt(s, t, p) ==
    /\ p + Len(t) - 1 <= Len(s)
    /\ \A k \in 1..Len(t) : s[p + k - 1] = t[k]

RECURSIVE IndexFrom(_, _, _)
IndexFrom(s, t, p) ==
    IF p + Len(t) - 1 > Len(s) THEN 0
    ELSE IF OccursAt(s, t, p) THEN p
    ELSE IndexFrom(s, t, p + 1)

IndexOf(s, t) == IndexFrom(s, t, 1)

(***************************************************************************)
(* GetSubstitution for a string pattern (no capture groups): in the       *)
(* replacement text "$$" yields "$", "$&" the matched text, "$" and a     *)
(* grave accent the text before the match, "$'" the text after it; every  *)
(* other character, "$1" included, is copied.                              *)
(***************************************************************************)
\* The grave accent character (U+0060), carried by name: a TLA+ string
\* cannot hold a grave accent on its own.
Grave == "grave"

RECURSIVE GetSubstitution(_, _, _, _, _)
GetSubstitution(rep, k, matched, before, after) ==
    IF k > Len(rep) THEN <<>>
    ELSE IF rep[k] = "$" /\ k < Len(rep) /\ rep[k + 1] \in {"$", "&", Grave, "'"}
         THEN (CASE rep[k + 1] = "$" -> <<"$">>
                 [] rep[k + 1] = "&" -> matched
                 [] rep[k + 1] = Grave -> before
                 [] rep[k + 1] = "'" -> after)
              \o GetSubstitution(rep, k + 2, matched, before, after)
         ELSE <<rep[k]>> \o GetSubstitution(rep, k + 1, matched, before, after)

(***************************************************************************)
(* String.prototype.replace(pattern: string, replacement: string): only   *)
(* the first occurrence of the pattern is replaced.                        *)
(***************************************************************************)
Replace(s, pat, rep) ==
    LET p == IndexOf(s, pat)
    IN  IF p = 0 THEN s
        ELSE LET before == SubSeq(s, 1, p - 1)
                 after  == SubSeq(s, p + Len(pat), Len(s))
             IN  before \o GetSubstitution(rep, 1, pat, before, after) \o after

(***************************************************************************)
(* The new title: titleFormat.replace('%prefix%', ticketPrefix)           *)
(*                           .replace('%id%', id).replace('%title%', title)*)
(***************************************************************************)
FormatTitle(titleFormat, ticketPrefix, ticketId, title) ==
    CHOOSE t3 \in {Replace(t2, sTitleTok, title) :
                     t2 \in {Replace(t1, sIdTok, ticketId) :
                               t1 \in {Replace(titleFormat, sPrefixTok, ticketPrefix)}}} :
        TRUE

(***************************************************************************)
(* Regular expressions.  A configured pattern is the text of a regular    *)
(* expression; the model carries it parsed: `given` is false for an empty *)
(* option, `valid` is false for a text `new RegExp` rejects, `anch` is a  *)
(* leading ^ and `atoms` the sequence of character classes, each single   *)
(* or repeated with a greedy +.                                            *)
(***************************************************************************)
Lit(c) == [cls |-> {c}, plus |-> FALSE]

DigitsPlus == [cls |-> Range(sDigits), plus |-> TRUE]

LowerOf == [c \in Range(sUpper) |-> sLower[CHOOSE k \in 1..Len(sUpper) : sUpper[k] = c]]

Lower(c) == IF c \in DOMAIN LowerOf THEN LowerOf[c] ELSE c

CharMatches(c, cls, ignoreCase) ==
    IF ignoreCase THEN Lower(c) \in {Lower(x) : x \in cls} ELSE c \in cls

\* The flags text of `new RegExp(source, flags)`: letters of "gimsuy", none twice.
ValidFlags(flags) ==
    /\ Range(flags) \subseteq {"g", "i", "m", "s", "u", "y"}
    /\ Cardinality(Range(flags)) = Len(flags)

\* The number of characters of s from position i on that belong to the class.
RECURSIVE RunLength(_, _, _, _)
RunLength(s, i, cls, ignoreCase) ==
    IF i <= Len(s) /\ CharMatches(s[i], cls, ignoreCase)
    THEN 1 + RunLength(s, i + 1, cls, ignoreCase)
    ELSE 0

\* Backtracking match of atoms[k..] at position i of s: the position after
\* the match the engine settles on, 0 when there is none.  A repeated class
\* first takes all the characters it can (n of them) and gives them back one
\* by one until the rest of the expression matches.
RECURSIVE MatchFrom(_, _, _, _, _), MatchRepeat(_, _, _, _, _, _)
MatchFrom(atoms, k, s, i, ignoreCase) ==
    IF k > Len(atoms) THEN i
    ELSE IF ~atoms[k].plus
         THEN IF i <= Len(s) /\ CharMatches(s[i], atoms[k].cls, ignoreCase)
              THEN MatchFrom(atoms, k + 1, s, i + 1, ignoreCase)
              ELSE 0
         ELSE MatchRepeat(atoms, k, s, i, RunLength(s, i, atoms[k].cls, ignoreCase),
                          ignoreCase)

MatchRepeat(atoms, k, s, i, n, ignoreCase) ==
    IF n < 1 THEN 0
    ELSE IF MatchFrom(atoms, k + 1, s, i + n, ignoreCase) # 0
         THEN MatchFrom(atoms, k + 1, s, i + n, ignoreCase)
         ELSE MatchRepeat(atoms, k, s, i, n - 1, ignoreCase)

\* The leftmost position from p on at which the expression matches, 0 when
\* there is none.
RECURSIVE FirstStart(_, _, _, _)
FirstStart(re, s, p, ignoreCase) ==
    IF p > Len(s) + 1 \/ (re.anch /\ p > 1) THEN 0
    ELSE IF MatchFrom(re.atoms, 1, s, p, ignoreCase) # 0 THEN p
    ELSE FirstStart(re, s, p + 1, ignoreCase)

NoMatch == [found |-> FALSE, text |-> <<>>]

\* RegExp.prototype.exec on a fresh expression: the leftmost match, as
\* result[0], or null.
Exec(re, flags, s) ==
    LET ignoreCase == "i" \in Range(flags)
        p == FirstStart(re, s, 1, ignoreCase)
    IN  IF p = 0 THEN NoMatch
        ELSE [found |-> TRUE,
              text |-> SubSeq(s, p, MatchFrom(re.atoms, 1, s, p, ignoreCase) - 1)]

\* variant: the whole value is returned when the expression matches
extractIdWholeValue(value, ticketRegex) ==
    IF Exec(ticketRegex, <<>>, value).found
    THEN [found |-> TRUE, text |-> value]
    ELSE NoMatch

\* extractId: value.match(ticketRegex), the expression built without flags;
\* result[0] or null.
extractId(value, ticketRegex) == Exec(ticketRegex, <<>>, value)

(***************************************************************************)
(* String.prototype.trim and String.prototype.split(',').                  *)
(***************************************************************************)
RECURSIVE Trim(_)
Trim(s) ==
    IF s = <<>> THEN s
    ELSE IF Head(s) = " " THEN Trim(Tail(s))
    ELSE IF s[Len(s)] = " " THEN Trim(SubSeq(s, 1, Len(s) - 1))
    ELSE s

RECURSIVE Split(_)
Split(s) ==
    LET p == IndexOf(s, <<",">>)
    IN  IF p = 0 THEN <<s>>
        ELSE <<SubSeq(s, 1, p - 1)>> \o Split(SubSeq(s, p + 1, Len(s)))

\* variant: the entries are compared as written, untrimmed
ParseExemptUsersUntrimmed(text) == Split(text)

\* getInput('exemptUsers').split(',').map(user => user.trim())
ParseExemptUsers(text) ==
    LET parts == Split(text) IN [k \in 1..Len(parts) |-> Trim(parts[k])]

\* senderType === 'Bot' ? login.replace('[bot]', '') : login
Sender(login, senderType) ==
    IF senderType = "Bot" THEN Replace(login, sBotTok, <<>>) ELSE login

(***************************************************************************)
(* Inputs of a run: the pull-request context (context.payload) and the    *)
(* action's options (getInput).  An unset option reads as the empty text. *)
(***************************************************************************)
TicketAtoms == <<Lit("T"), Lit("I"), Lit("C"), Lit("K"), Lit("-"), DigitsPlus>>

\* TICK-\d+
TicketPattern == [given |-> TRUE, valid |-> TRUE, anch |-> FALSE, atoms |-> TicketAtoms]

\* ^TICK-\d+
TitlePattern == [given |-> TRUE, valid |-> TRUE, anch |-> TRUE, atoms |-> TicketAtoms]

\* closes TICK-\d+
ClosesPattern ==
    [given |-> TRUE, valid |-> TRUE, anch |-> FALSE,
     atoms |-> <<Lit("c"), Lit("l"), Lit("o"), Lit("s"), Lit("e"), Lit("s"), Lit(" ")>>
               \o TicketAtoms]

\* an option left empty
UnsetPattern == [given |-> FALSE, valid |-> TRUE, anch |-> FALSE, atoms |-> <<>>]

\* a text `new RegExp` rejects, such as "("
BrokenPattern == [given |-> TRUE, valid |-> FALSE, anch |-> FALSE, atoms |-> <<>>]

\* "[%prefix%-%id%] %title%"
BracketFormat == <<"[">> \o sPrefixTok \o <<"-">> \o sIdTok \o <<"]", " ">> \o sTitleTok

\* "%prefix%-%id%: %title%"
ColonFormat == sPrefixTok \o <<"-">> \o sIdTok \o <<":", " ">> \o sTitleTok

Titles == {sAddLoginFlow, sTick1Fix}

Branches == {sFeatureTick42, sMain, sLowerTick}

Bodies ==
    {[kind |-> "undefined", text |-> <<>>], [kind |-> "null", text |-> <<>>]}
    \cup {[kind |-> "text", text |-> t] : t \in {sFixesTick9, sNoRef, sLowerBody, sMixedBody, sClosesBody}}

Authors ==
    {[user |-> TRUE, login |-> l, type |-> t] :
        l \in {sFoo, sFooBot, sInnerBot, sOnlyBot}, t \in {"User", "Bot"}}
    \cup {[user |-> TRUE, login |-> sBar, type |-> "User"],
          [user |-> FALSE, login |-> <<>>, type |-> "User"]}

Contexts ==
    {[title |-> t, branch |-> b, body |-> d, author |-> a] :
        t \in Titles, b \in Branches, d \in Bodies, a \in Authors}

DefaultConfig ==
    [ticketRegex |-> TicketPattern,
     titleRegex |-> TitlePattern, titleRegexFlags |-> <<"g">>,
     branchRegex |-> TicketPattern, branchRegexFlags |-> <<"g">>,
     bodyRegex |-> TicketPattern, bodyRegexFlags |-> <<"g">>,
     titleFormat |-> BracketFormat, ticketPrefix |-> sTICK,
     exemptUsers |-> <<>>, quiet |-> <<>>, token |-> <<"k">>]

\* complete configurations
GoodConfigs ==
    {[DefaultConfig EXCEPT !.branchRegexFlags = bf, !.bodyRegexFlags = df,
                           !.titleFormat = tf, !.exemptUsers = ex, !.quiet = q] :
        bf \in {<<"g">>, <<"g", "i">>}, df \in {<<"g">>, <<"i">>},
        tf \in {BracketFormat, ColonFormat},
        ex \in {<<>>, sFoo, sFooBot, sExPadded},
        q \in {<<>>, sTrue, sFalse}}

PatternOptions == {"ticketRegex", "titleRegex", "branchRegex", "bodyRegex"}

FlagOptions == {"titleRegexFlags", "branchRegexFlags", "bodyRegexFlags"}

\* the default configuration with one option unset or unusable
FaultyConfigs ==
    {[DefaultConfig EXCEPT ![o] = UnsetPattern] : o \in PatternOptions}
    \cup {[DefaultConfig EXCEPT ![o] = BrokenPattern] : o \in PatternOptions}
    \cup {[DefaultConfig EXCEPT ![o] = <<>>] : o \in FlagOptions \cup {"titleFormat", "token"}}
    \cup {[DefaultConfig EXCEPT ![o] = <<"q">>] : o \in FlagOptions}

\* the default configuration with a body pattern wider than ticketRegex
WideBodyConfigs ==
    {[DefaultConfig EXCEPT !.bodyRegex = ClosesPattern, !.quiet = q] : q \in {<<>>, sTrue}}

Configs == GoodConfigs \cup FaultyConfigs \cup WideBodyConfigs

\* what exec sees for the body: a null body is coerced to the text "null"
BodyText(body) == IF body.kind = "null" THEN sNullText ELSE body.text

(***************************************************************************)
(* Outbound requests and failure messages.                                 *)
(***************************************************************************)
UpdateCall(newTitle) == [kind |-> "update", title |-> newTitle, about |-> "-"]

CommentCall(about) == [kind |-> "comment", title |-> <<>>, about |-> about]

MsgBranch == "Could not extract a ticket ID reference from the branch"

MsgBody == "Could not extract a ticket shorthand reference from the body"

MsgNoBody == "Could not retrieve the Pull Request body"

MsgNoTicket == "No ticket was referenced in this pull request"

Outcomes == {"Approved", "Exempted", "TitleUpdated(branch)", "TitleUpdated(body)", "Rejected"}

\* new RegExp(base, flags) for a required pair of options: the message of
\* the exception it raises, "" when it builds.
CompileError(base, flags) ==
    IF ~cfg[base].given THEN "Input required and not supplied: " \o base
    ELSE IF cfg[flags] = <<>> THEN "Input required and not supplied: " \o flags
    ELSE IF ~ValidFlags(cfg[flags]) THEN "Invalid flags supplied to RegExp constructor"
    ELSE IF ~cfg[base].valid THEN "Invalid regular expression"
    ELSE ""

\* extractId's getInput('ticketRegex', { required: true }) and match
ExtractError ==
    IF ~cfg.ticketRegex.given THEN "Input required and not supplied: ticketRegex"
    ELSE IF ~cfg.ticketRegex.valid THEN "Invalid regular expression"
    ELSE ""

\* variant: the failure is marked a second time on the way out
FailTwice(message) ==
    /\ failures' = Append(Append(failures, message), message)
    /\ outcome' = "Rejected"
    /\ pc' = "Done"

\* setFailed(message) followed by the return from run
Fail(message) ==
    /\ failures' = Append(failures, message)
    /\ outcome' = "Rejected"
    /\ pc' = "Done"

(***************************************************************************)
(* Title template substitution on its own: a template is given as the     *)
(* sequence of its pieces, placeholders and plain text.                    *)
(***************************************************************************)
MaxParts == 3

Pieces == {sPrefixTok, sIdTok, sTitleTok, <<"x">>, <<"-">>}

RECURSIVE PartsOfLength(_)
PartsOfLength(n) ==
    IF n = 0 THEN {<<>>}
    ELSE {Append(ps, q) : ps \in PartsOfLength(n - 1), q \in Pieces}

BracketParts == <<<<"[">>, sPrefixTok, <<"-">>, sIdTok, <<"]", " ">>, sTitleTok>>

ColonParts == <<sPrefixTok, <<"-">>, sIdTok, <<":", " ">>, sTitleTok>>

TemplateParts ==
    UNION {PartsOfLength(n) : n \in 0..MaxParts} \cup {BracketParts, ColonParts}

FormatPrefixes == {sJIRA, <<>>, sIdTok}

FormatIds == {s1234, sTitleTok, <<"7", "$", "'">>}

FormatTitles == {sFixBug, sIdTok, <<"a", "$", "&">>, <<"$", "$">>, <<"$", Grave>>}

RECURSIVE Flatten(_)
Flatten(parts) == IF parts = <<>> THEN <<>> ELSE Head(parts) \o Flatten(Tail(parts))

FormatIdle == [phase |-> "idle", parts |-> <<>>, prefix |-> <<>>, id |-> <<>>,
               title |-> <<>>, out |-> <<>>]

Init ==
    /\ ctx \in Contexts
    /\ cfg \in Configs
    /\ pc = "CheckTitle"
    /\ titleCheck = NoMatch
    /\ sender = <<>>
    /\ quiet = FALSE
    /\ exemptUsers = <<>>
    /\ branchCheck = NoMatch
    /\ bodyCheck = NoMatch
    /\ id = NoMatch
    /\ calls = <<>>
    /\ failures = <<>>
    /\ outcome = "None"
    /\ trail = <<>>
    /\ fmt = FormatIdle

(***************************************************************************)
(* The stages of run().  A raised exception is caught by the try/catch    *)
(* around the whole body and reported with setFailed(error.message).       *)
(***************************************************************************)
\* variant: a matching title does not end the run
TitleNeverApproves(check) == FALSE

\* if (titleCheck !== null) return
TitleApproves(check) == check.found

\* variant: only the first entry of the list is compared
IsExemptFirstOnly(who, users) == who # <<>> /\ Len(users) >= 1 /\ who = users[1]

\* sender && exemptUsers.includes(sender)
IsExempt(who, users) == who # <<>> /\ who \in Range(users)

\* variant: any non-empty value of the option counts as quiet
IsQuietWhenSet(text) == text # <<>>

\* getInput('quiet', { required: false }) === 'true'
IsQuiet(text) == text = sTrue

\* Title check: compile titleRegex, test the title, build the client, compute
\* the sender, return when the title holds a ticket reference.
CheckTitle ==
    /\ pc = "CheckTitle"
    /\ trail' = Append(trail, "CheckTitle")
    /\ LET err == CompileError("titleRegex", "titleRegexFlags")
       IN  \E check \in {Exec(cfg.titleRegex, cfg.titleRegexFlags, ctx.title)} :
           IF err # ""
           THEN Fail(err) /\ UNCHANGED <<titleCheck, sender>>
           ELSE /\ titleCheck' = check
                /\ IF cfg.token = <<>>
                   THEN Fail("Input required and not supplied: token") /\ UNCHANGED sender
                   ELSE IF ~ctx.author.user
                   THEN Fail("Cannot read property 'login' of undefined") /\ UNCHANGED sender
                   ELSE /\ sender' = Sender(ctx.author.login, ctx.author.type)
                        /\ IF TitleApproves(check)
                           THEN outcome' = "Approved" /\ pc' = "Done"
                           ELSE pc' = "CheckExemption" /\ UNCHANGED outcome
                        /\ UNCHANGED failures
    /\ UNCHANGED <<ctx, cfg, quiet, exemptUsers, branchCheck, bodyCheck, id, calls, fmt>>

\* variant: the body is read, and its absence reported, ahead of the
\* exemption test
CheckExemptionNeedsBody ==
    /\ pc = "CheckExemption"
    /\ trail' = Append(trail, "CheckExemption")
    /\ quiet' = IsQuiet(cfg.quiet)
    /\ exemptUsers' = ParseExemptUsers(cfg.exemptUsers)
    /\ IF ctx.body.kind = "undefined"
       THEN Fail(MsgNoBody)
       ELSE /\ IF IsExempt(sender, exemptUsers')
               THEN outcome' = "Exempted" /\ pc' = "Done"
               ELSE pc' = "CheckBranch" /\ UNCHANGED outcome
            /\ UNCHANGED failures
    /\ UNCHANGED <<ctx, cfg, titleCheck, sender, branchCheck, bodyCheck, id,
                   calls, fmt>>

\* Exemption check: read quiet and exemptUsers, return when the sender is listed.
CheckExemption ==
    /\ pc = "CheckExemption"
    /\ trail' = Append(trail, "CheckExemption")
    /\ quiet' = IsQuiet(cfg.quiet)
    /\ exemptUsers' = ParseExemptUsers(cfg.exemptUsers)
    /\ IF IsExempt(sender, exemptUsers')
       THEN outcome' = "Exempted" /\ pc' = "Done"
       ELSE pc' = "CheckBranch" /\ UNCHANGED outcome
    /\ UNCHANGED <<ctx, cfg, titleCheck, sender, branchCheck, bodyCheck, id,
                   calls, failures, fmt>>

\* variant: the body is consulted before the branch
CheckBranchSkipped ==
    /\ pc = "CheckBranch"
    /\ trail' = Append(trail, "CheckBranch")
    /\ pc' = "CheckBody"
    /\ UNCHANGED <<ctx, cfg, titleCheck, sender, quiet, exemptUsers, branchCheck,
                   bodyCheck, id, calls, failures, outcome, fmt>>

\* variant: a branch match without an identifier falls through to the body
CheckBranchFallsThrough ==
    /\ pc = "CheckBranch"
    /\ trail' = Append(trail, "CheckBranch")
    /\ LET err == IF cfg.titleFormat = <<>>
                  THEN "Input required and not supplied: titleFormat"
                  ELSE CompileError("branchRegex", "branchRegexFlags")
       IN  \E check \in {Exec(cfg.branchRegex, cfg.branchRegexFlags, ctx.branch)} :
           \E found \in {extractId(ctx.branch, cfg.ticketRegex)} :
           IF err # ""
           THEN Fail(err) /\ UNCHANGED <<branchCheck, id>>
           ELSE /\ branchCheck' = check
                /\ IF ~check.found
                   THEN pc' = "CheckBody" /\ UNCHANGED <<id, failures, outcome>>
                   ELSE IF ExtractError # ""
                   THEN Fail(ExtractError) /\ UNCHANGED id
                   ELSE IF ~found.found
                   THEN pc' = "CheckBody" /\ UNCHANGED <<id, failures, outcome>>
                   ELSE /\ id' = found
                        /\ pc' = "UpdateFromBranch"
                        /\ UNCHANGED <<failures, outcome>>
    /\ UNCHANGED <<ctx, cfg, titleCheck, sender, quiet, exemptUsers, bodyCheck, calls, fmt>>

\* Branch check: read ticketPrefix and titleFormat, compile branchRegex, test
\* the branch name and extract the identifier from the branch name.
CheckBranch ==
    /\ pc = "CheckBranch"
    /\ trail' = Append(trail, "CheckBranch")
    /\ LET err == IF cfg.titleFormat = <<>>
                  THEN "Input required and not supplied: titleFormat"
                  ELSE CompileError("branchRegex", "branchRegexFlags")
       IN  \E check \in {Exec(cfg.branchRegex, cfg.branchRegexFlags, ctx.branch)} :
           \E found \in {extractId(ctx.branch, cfg.ticketRegex)} :
           IF err # ""
           THEN Fail(err) /\ UNCHANGED <<branchCheck, id>>
           ELSE /\ branchCheck' = check
                /\ IF ~check.found
                   THEN pc' = "CheckBody" /\ UNCHANGED <<id, failures, outcome>>
                   ELSE IF ExtractError # ""
                   THEN Fail(ExtractError) /\ UNCHANGED id
                   ELSE IF ~found.found
                   THEN Fail(MsgBranch) /\ UNCHANGED id
                   ELSE /\ id' = found
                        /\ pc' = "UpdateFromBranch"
                        /\ UNCHANGED <<failures, outcome>>
    /\ UNCHANGED <<ctx, cfg, titleCheck, sender, quiet, exemptUsers, bodyCheck, calls, fmt>>

\* variant: the update request is left out, the comment still follows
UpdateFromBranchDropped ==
    /\ pc = "UpdateFromBranch"
    /\ trail' = Append(trail, "UpdateFromBranch")
    /\ pc' = "CommentFromBranch"
    /\ UNCHANGED <<ctx, cfg, titleCheck, sender, quiet, exemptUsers, branchCheck,
                   bodyCheck, id, calls, failures, outcome, fmt>>

\* client.pulls.update with the title built from the branch's identifier
UpdateFromBranch ==
    /\ pc = "UpdateFromBranch"
    /\ trail' = Append(trail, "UpdateFromBranch")
    /\ calls' = Append(calls, UpdateCall(FormatTitle(cfg.titleFormat, cfg.ticketPrefix,
                                                     id.text, ctx.title)))
    /\ pc' = "CommentFromBranch"
    /\ UNCHANGED <<ctx, cfg, titleCheck, sender, quiet, exemptUsers, branchCheck,
                   bodyCheck, id, failures, outcome, fmt>>

\* if (!quiet) client.pulls.createReview(...branch name...); return
CommentFromBranch ==
    /\ pc = "CommentFromBranch"
    /\ trail' = Append(trail, "CommentFromBranch")
    /\ calls' = IF ~quiet THEN Append(calls, CommentCall("branch name")) ELSE calls
    /\ outcome' = "TitleUpdated(branch)"
    /\ pc' = "Done"
    /\ UNCHANGED <<ctx, cfg, titleCheck, sender, quiet, exemptUsers, branchCheck,
                   bodyCheck, id, failures, fmt>>

\* variant: the identifier is looked for in the whole body
CheckBodyWholeBody ==
    /\ pc = "CheckBody"
    /\ trail' = Append(trail, "CheckBody")
    /\ LET err == CompileError("bodyRegex", "bodyRegexFlags")
       IN  \E check \in {Exec(cfg.bodyRegex, cfg.bodyRegexFlags, BodyText(ctx.body))} :
           \E found \in {extractId(BodyText(ctx.body), cfg.ticketRegex)} :
           IF ctx.body.kind = "undefined"
           THEN Fail(MsgNoBody) /\ UNCHANGED <<bodyCheck, id>>
           ELSE IF err # ""
           THEN Fail(err) /\ UNCHANGED <<bodyCheck, id>>
           ELSE /\ bodyCheck' = check
                /\ IF ~check.found
                   THEN pc' = "NoTicket" /\ UNCHANGED <<id, failures, outcome>>
                   ELSE IF ExtractError # ""
                   THEN Fail(ExtractError) /\ UNCHANGED id
                   ELSE IF ~found.found
                   THEN Fail(MsgBody) /\ UNCHANGED id
                   ELSE /\ id' = found
                        /\ pc' = "UpdateFromBody"
                        /\ UNCHANGED <<failures, outcome>>
    /\ UNCHANGED <<ctx, cfg, titleCheck, sender, quiet, exemptUsers, branchCheck, calls, fmt>>

\* Body check: read the body, compile bodyRegex, test the body and extract
\* the identifier from the matched text.
CheckBody ==
    /\ pc = "CheckBody"
    /\ trail' = Append(trail, "CheckBody")
    /\ LET err == CompileError("bodyRegex", "bodyRegexFlags")
       IN  \E check \in {Exec(cfg.bodyRegex, cfg.bodyRegexFlags, BodyText(ctx.body))} :
           \E found \in {extractId(check.text, cfg.ticketRegex)} :
           IF ctx.body.kind = "undefined"
           THEN Fail(MsgNoBody) /\ UNCHANGED <<bodyCheck, id>>
           ELSE IF err # ""
           THEN Fail(err) /\ UNCHANGED <<bodyCheck, id>>
           ELSE /\ bodyCheck' = check
                /\ IF ~check.found
                   THEN pc' = "NoTicket" /\ UNCHANGED <<id, failures, outcome>>
                   ELSE IF ExtractError # ""
                   THEN Fail(ExtractError) /\ UNCHANGED id
                   ELSE IF ~found.found
                   THEN Fail(MsgBody) /\ UNCHANGED id
                   ELSE /\ id' = found
                        /\ pc' = "UpdateFromBody"
                        /\ UNCHANGED <<failures, outcome>>
    /\ UNCHANGED <<ctx, cfg, titleCheck, sender, quiet, exemptUsers, branchCheck, calls, fmt>>

\* variant: the update request is issued twice
UpdateFromBodyTwice ==
    /\ pc = "UpdateFromBody"
    /\ trail' = Append(trail, "UpdateFromBody")
    /\ \E call \in {UpdateCall(FormatTitle(cfg.titleFormat, cfg.ticketPrefix,
                                            id.text, ctx.title))} :
          calls' = Append(Append(calls, call), call)
    /\ pc' = "CommentFromBody"
    /\ UNCHANGED <<ctx, cfg, titleCheck, sender, quiet, exemptUsers, branchCheck,
                   bodyCheck, id, failures, outcome, fmt>>

\* client.pulls.update with the title built from the body's identifier
UpdateFromBody ==
    /\ pc = "UpdateFromBody"
    /\ trail' = Append(trail, "UpdateFromBody")
    /\ calls' = Append(calls, UpdateCall(FormatTitle(cfg.titleFormat, cfg.ticketPrefix,
                                                     id.text, ctx.title)))
    /\ pc' = "CommentFromBody"
    /\ UNCHANGED <<ctx, cfg, titleCheck, sender, quiet, exemptUsers, branchCheck,
                   bodyCheck, id, failures, outcome, fmt>>

\* if (!quiet) client.pulls.createReview(...body...); return
CommentFromBody ==
    /\ pc = "CommentFromBody"
    /\ trail' = Append(trail, "CommentFromBody")
    /\ calls' = IF ~quiet THEN Append(calls, CommentCall("body")) ELSE calls
    /\ outcome' = "TitleUpdated(body)"
    /\ pc' = "Done"
    /\ UNCHANGED <<ctx, cfg, titleCheck, sender, quiet, exemptUsers, branchCheck,
                   bodyCheck, id, failures, fmt>>

\* variant: the final test never holds and run() ends without a word
NoTicketSilent ==
    /\ pc = "NoTicket"
    /\ trail' = Append(trail, "NoTicket")
    /\ pc' = "Done"
    /\ UNCHANGED <<ctx, cfg, titleCheck, sender, quiet, exemptUsers, branchCheck,
                   bodyCheck, id, calls, failures, outcome, fmt>>

\* variant: the final failure carries the message of the missing body
NoTicketWrongMessage ==
    /\ pc = "NoTicket"
    /\ trail' = Append(trail, "NoTicket")
    /\ Fail(MsgNoBody)
    /\ UNCHANGED <<ctx, cfg, titleCheck, sender, quiet, exemptUsers, branchCheck,
                   bodyCheck, id, calls, fmt>>

\* if (titleCheck === null && branchCheck === null && bodyCheck === null)
\* setFailed(...); otherwise run() ends without a word.
NoTicket ==
    /\ pc = "NoTicket"
    /\ trail' = Append(trail, "NoTicket")
    /\ IF ~titleCheck.found /\ ~branchCheck.found /\ ~bodyCheck.found
       THEN Fail(MsgNoTicket)
       ELSE pc' = "Done" /\ UNCHANGED <<failures, outcome>>
    /\ UNCHANGED <<ctx, cfg, titleCheck, sender, quiet, exemptUsers, branchCheck,
                   bodyCheck, id, calls, fmt>>

Next ==
    \/ CheckTitle
    \/ CheckExemption
    \/ CheckBranch
    \/ UpdateFromBranch
    \/ CommentFromBranch
    \/ CheckBody
    \/ UpdateFromBody
    \/ CommentFromBody
    \/ NoTicket

Spec == Init /\ [][Next]_vars

\* A smaller choice of inputs for the checks of termination.
LiveContexts ==
    {c \in Contexts : /\ c.author.login \in {sFoo, <<>>}
                      /\ c.author.type = "User"
                      /\ c.body.kind # "null"}

LiveConfigs ==
    {c \in Configs : /\ c.titleFormat # ColonFormat
                     /\ c.exemptUsers \in {<<>>, sFoo}
                     /\ c.quiet \in {<<>>, sTrue}}

LiveInit == Init /\ ctx \in LiveContexts /\ cfg \in LiveConfigs

\* run() is one uninterrupted asynchronous function: every step that can be
\* taken is taken.
FairSpec == LiveInit /\ [][Next]_vars /\ WF_vars(Next)

\* The substitution applied to one template and one triple of values.
FormatInit ==
    /\ fmt \in {[phase |-> "input", parts |-> ps, prefix |-> a, id |-> b,
                 title |-> c, out |-> <<>>] :
                  ps \in TemplateParts, a \in FormatPrefixes, b \in FormatIds,
                  c \in FormatTitles}
    /\ ctx = [title |-> fmt.title, branch |-> <<>>,
              body |-> [kind |-> "undefined", text |-> <<>>],
              author |-> [user |-> FALSE, login |-> <<>>, type |-> "User"]]
    /\ cfg = [DefaultConfig EXCEPT !.titleFormat = Flatten(fmt.parts),
                                   !.ticketPrefix = fmt.prefix]
    /\ pc = "Format"
    /\ titleCheck = NoMatch
    /\ sender = <<>>
    /\ quiet = FALSE
    /\ exemptUsers = <<>>
    /\ branchCheck = NoMatch
    /\ bodyCheck = NoMatch
    /\ id = [found |-> TRUE, text |-> fmt.id]
    /\ calls = <<>>
    /\ failures = <<>>
    /\ outcome = "None"
    /\ trail = <<>>

ApplyFormat ==
    /\ pc = "Format"
    /\ fmt.phase = "input"
    /\ fmt' = [fmt EXCEPT !.phase = "output",
                          !.out = FormatTitle(cfg.titleFormat, cfg.ticketPrefix,
                                              id.text, ctx.title)]
    /\ pc' = "Formatted"
    /\ UNCHANGED <<ctx, cfg, titleCheck, sender, quiet, exemptUsers, branchCheck,
                   bodyCheck, id, calls, failures, outcome, trail>>

FormatNext == ApplyFormat

SpecFormat == FormatInit /\ [][FormatNext]_vars

(***************************************************************************)
(* Properties.  The conditions below are stated on the inputs of the run. *)
(***************************************************************************)
Updates == SelectSeq(calls, LAMBDA c : c.kind = "update")

Comments == SelectSeq(calls, LAMBDA c : c.kind = "comment")

Visited(stage) == stage \in Range(trail)

\* the title stage neither lacks an option nor raises
TitleStageRuns ==
    /\ cfg.titleRegex.given /\ cfg.titleRegex.valid
    /\ cfg.titleRegexFlags # <<>> /\ ValidFlags(cfg.titleRegexFlags)
    /\ cfg.token # <<>>
    /\ ctx.author.user

TitleHit == TitleStageRuns /\ Exec(cfg.titleRegex, cfg.titleRegexFlags, ctx.title).found

TitleMiss == TitleStageRuns /\ ~Exec(cfg.titleRegex, cfg.titleRegexFlags, ctx.title).found

SenderOfAuthor == Sender(ctx.author.login, ctx.author.type)

SenderListed == SenderOfAuthor \in Range(ParseExemptUsers(cfg.exemptUsers))

SenderExempt == SenderOfAuthor # <<>> /\ SenderListed

BranchStageRuns ==
    /\ cfg.titleFormat # <<>>
    /\ cfg.branchRegex.given /\ cfg.branchRegex.valid
    /\ cfg.branchRegexFlags # <<>> /\ ValidFlags(cfg.branchRegexFlags)

BranchHit == BranchStageRuns /\ Exec(cfg.branchRegex, cfg.branchRegexFlags, ctx.branch).found

BranchMiss == BranchStageRuns /\ ~Exec(cfg.branchRegex, cfg.branchRegexFlags, ctx.branch).found

TicketRegexUsable == cfg.ticketRegex.given /\ cfg.ticketRegex.valid

\* the first ticketRegex match in the branch name
BranchId == Exec(cfg.ticketRegex, <<>>, ctx.branch)

BodyStageRuns ==
    /\ ctx.body.kind # "undefined"
    /\ cfg.bodyRegex.given /\ cfg.bodyRegex.valid
    /\ cfg.bodyRegexFlags # <<>> /\ ValidFlags(cfg.bodyRegexFlags)

BodyHit == BodyStageRuns /\ Exec(cfg.bodyRegex, cfg.bodyRegexFlags, BodyText(ctx.body)).found

\* the first ticketRegex match in the text the body pattern matched
BodyId ==
    Exec(cfg.ticketRegex, <<>>,
         Exec(cfg.bodyRegex, cfg.bodyRegexFlags, BodyText(ctx.body)).text)

\* C1: when the title pattern matches the title, the run ends Approved and
\* requests no title update, no comment and no failure, whatever the branch,
\* the body, the author and the exempt-user list are.
TitleMatchApproves ==
    TitleHit =>
        /\ calls = <<>>
        /\ failures = <<>>
        /\ pc \in {"CheckTitle", "Done"}
        /\ pc = "Done" => outcome = "Approved"

\* a finished run whose title matched, for an exempt author on a branch that
\* holds a ticket reference and with no body
TitleMatchApprovesWitness ==
    /\ pc = "Done" /\ TitleHit /\ outcome = "Approved"
    /\ SenderExempt /\ BranchHit /\ ctx.body.kind = "undefined"

\* the place of a stage in the order title, exemption, branch, body
StageRank(stage) ==
    CASE stage = "CheckTitle" -> 1
      [] stage = "CheckExemption" -> 2
      [] stage \in {"CheckBranch", "UpdateFromBranch", "CommentFromBranch"} -> 3
      [] OTHER -> 4

\* C2: the stages run in the order title, exemption, branch, body; with no
\* title match and no exemption, when the branch and the body
\* hold valid but distinct ticket references the one title update is built from
\* the branch's identifier and the run ends TitleUpdated(branch).
BranchBeforeBody ==
    (/\ TitleMiss /\ ~SenderExempt /\ TicketRegexUsable
     /\ BranchHit /\ BranchId.found
     /\ BodyHit /\ BodyId.found /\ BodyId.text # BranchId.text)
    =>
        /\ \A k \in 1..Len(Updates) :
              /\ Updates[k].title = FormatTitle(cfg.titleFormat, cfg.ticketPrefix,
                                                BranchId.text, ctx.title)
              /\ Updates[k].title # FormatTitle(cfg.titleFormat, cfg.ticketPrefix,
                                                BodyId.text, ctx.title)
        /\ ~Visited("CheckBody")
        /\ \A i, j \in 1..Len(trail) : i < j => StageRank(trail[i]) <= StageRank(trail[j])
        /\ pc = "Done" => Len(Updates) = 1 /\ outcome = "TitleUpdated(branch)"

\* a finished run that updated the title from TICK-42 of the branch while
\* the body held TICK-9
BranchBeforeBodyWitness ==
    /\ pc = "Done" /\ TitleMiss /\ ~SenderExempt
    /\ BranchHit /\ BranchId.text = sTick42
    /\ BodyHit /\ BodyId.text = sTick9
    /\ Len(Updates) = 1

\* C3 as stated: whenever the title does not match and the sender is in the
\* exempt-user list, the run ends Exempted without update, comment or failure.
ListedSenderExempted ==
    (TitleMiss /\ SenderListed) =>
        /\ calls = <<>>
        /\ failures = <<>>
        /\ pc = "Done" => outcome = "Exempted"

\* C3, amended: whenever the title does not match and the sender is non-empty
\* and in the exempt-user list, the run ends Exempted without update, comment or
\* failure, and neither the branch stage nor the body stage is entered.
NonEmptyListedSenderExempted ==
    (TitleMiss /\ SenderOfAuthor # <<>> /\ SenderListed) =>
        /\ calls = <<>>
        /\ failures = <<>>
        /\ ~Visited("CheckBranch") /\ ~Visited("CheckBody")
        /\ pc \in {"CheckTitle", "CheckExemption", "Done"}
        /\ pc = "Done" => outcome = "Exempted"

\* a finished run of a listed sender whose branch and body both hold a
\* ticket reference
NonEmptyListedSenderExemptedWitness ==
    /\ pc = "Done" /\ TitleMiss /\ SenderOfAuthor # <<>> /\ SenderListed
    /\ outcome = "Exempted"
    /\ BranchHit /\ BranchId.found /\ BodyHit /\ BodyId.found

\* the login without a trailing "[bot]"
StripBotSuffix(login) ==
    IF Len(login) >= Len(sBotTok)
       /\ SubSeq(login, Len(login) - Len(sBotTok) + 1, Len(login)) = sBotTok
    THEN SubSeq(login, 1, Len(login) - Len(sBotTok))
    ELSE login

\* C4: once computed, the sender is the login without its trailing "[bot]"
\* for a Bot and the login itself otherwise, and the exemption decision is
\* taken on that sender.
SenderStripsTrailingMarker ==
    (TitleStageRuns /\ Visited("CheckTitle")) =>
        /\ sender = IF ctx.author.type = "Bot"
                    THEN StripBotSuffix(ctx.author.login)
                    ELSE ctx.author.login
        /\ (pc = "Done" /\ ~titleCheck.found) =>
              (outcome = "Exempted" <=>
                 LET who == IF ctx.author.type = "Bot"
                            THEN StripBotSuffix(ctx.author.login)
                            ELSE ctx.author.login
                 IN  who # <<>> /\ who \in Range(ParseExemptUsers(cfg.exemptUsers)))

\* C5: when the branch pattern matches but ticketRegex finds nothing in the
\* branch name, the run ends Rejected with the branch message, requests
\* nothing and never enters the body stage.
BranchExtractionFailureIsFinal ==
    (/\ TitleMiss /\ ~SenderExempt /\ BranchHit
     /\ TicketRegexUsable /\ ~BranchId.found)
    =>
        /\ calls = <<>>
        /\ ~Visited("CheckBody")
        /\ bodyCheck = NoMatch
        /\ pc \in {"CheckTitle", "CheckExemption", "CheckBranch", "Done"}
        /\ pc = "Done" => outcome = "Rejected" /\ failures = <<MsgBranch>>

\* a run rejected on the branch although the body holds a ticket reference
BranchExtractionFailureIsFinalWitness ==
    /\ pc = "Done" /\ TitleMiss /\ ~SenderExempt /\ BranchHit
    /\ TicketRegexUsable /\ ~BranchId.found
    /\ failures = <<MsgBranch>>
    /\ BodyHit /\ BodyId.found

\* the branch, or failing that the body, matches and yields an identifier
RewriteDue ==
    /\ TitleMiss /\ ~SenderExempt /\ TicketRegexUsable
    /\ \/ BranchHit /\ BranchId.found
       \/ BranchMiss /\ BodyHit /\ BodyId.found

\* C6: a run that rewrites the title issues exactly one update, and no
\* comment when quiet is "true", exactly one comment otherwise.
QuietSuppressesOnlyComment ==
    (RewriteDue /\ pc = "Done") =>
        /\ Len(Updates) = 1
        /\ Len(Comments) = IF cfg.quiet = sTrue THEN 0 ELSE 1
        /\ Len(calls) = Len(Updates) + Len(Comments)

\* a quiet run that updated the title from the branch without a comment
QuietSuppressesOnlyCommentWitness ==
    /\ pc = "Done" /\ RewriteDue /\ BranchHit /\ cfg.quiet = sTrue
    /\ Len(Updates) = 1 /\ Len(Comments) = 0

\* the inputs of the end-to-end run: title "Add login flow", branch
\* "feature/TICK-42-login" yielding "TICK-42", prefix "TICK", template
\* "[%prefix%-%id%] %title%", quiet off, sender not exempt
EndToEndInputs ==
    /\ ctx.title = sAddLoginFlow /\ ctx.branch = sFeatureTick42
    /\ cfg.ticketPrefix = sTICK /\ cfg.titleFormat = BracketFormat
    /\ cfg.quiet # sTrue
    /\ TitleMiss /\ ~SenderExempt /\ BranchHit
    /\ TicketRegexUsable /\ BranchId.text = sTick42

\* C7 as stated: the end-to-end run issues one update to
\* "[TICK-42] Add login flow", then one branch-name comment, and ends
\* TitleUpdated(branch).
EndToEndTitleAsStated ==
    (pc = "Done" /\ EndToEndInputs) =>
        /\ calls = <<UpdateCall(sE2E), CommentCall("branch name")>>
        /\ failures = <<>>
        /\ outcome = "TitleUpdated(branch)"

\* C7, amended: the end-to-end run issues one update to
\* "[TICK-TICK-42] Add login flow" (prefix and identifier are both
\* substituted in full), then one branch-name comment, and ends
\* TitleUpdated(branch).
EndToEndBranchRewrite ==
    (pc = "Done" /\ EndToEndInputs) =>
        /\ calls = <<UpdateCall(sE2EActual), CommentCall("branch name")>>
        /\ failures = <<>>
        /\ outcome = "TitleUpdated(branch)"

\* the end-to-end run, finished
EndToEndBranchRewriteWitness ==
    pc = "Done" /\ EndToEndInputs /\ Len(calls) = 2

\* the position of the first piece equal to tok, 0 when there is none
FirstPiece(parts, tok) ==
    LET at == {k \in 1..Len(parts) : parts[k] = tok}
    IN  IF at = {} THEN 0 ELSE Min(at)

\* the template with the first occurrence of each placeholder replaced by
\* its value, taken verbatim
LiteralTitle(parts, prefix, ticketId, title) ==
    Flatten([k \in 1..Len(parts) |->
                IF k = FirstPiece(parts, sPrefixTok) THEN prefix
                ELSE IF k = FirstPiece(parts, sIdTok) THEN ticketId
                ELSE IF k = FirstPiece(parts, sTitleTok) THEN title
                ELSE parts[k]])

\* C8: the new title is the template with the first occurrence of each of
\* %prefix%, %id%, %title% replaced by its value verbatim, and text brought in
\* by a value is never substituted again; "%prefix%-%id%: %title%" with "JIRA",
\* "1234", "Fix bug" gives "JIRA-1234: Fix bug".
SubstitutionIsLiteral ==
    fmt.phase = "output" =>
        /\ fmt.out = LiteralTitle(fmt.parts, fmt.prefix, fmt.id, fmt.title)
        /\ (fmt.parts = ColonParts /\ fmt.prefix = sJIRA /\ fmt.id = s1234
            /\ fmt.title = sFixBug) => fmt.out = sJiraOut

\* C9: every run reaches Done, has no outcome before that and exactly one of
\* the five outcomes from then on.
RunYieldsOneOutcome ==
    /\ <>(pc = "Done")
    /\ [](pc = "Done" => outcome \in Outcomes)
    /\ [](pc # "Done" => outcome = "None")
    /\ [][pc = "Done" => (pc' = "Done" /\ outcome' = outcome)]_vars

\* a finished run in which title, branch and body all failed to match
RunYieldsOneOutcomeWitness ==
    /\ pc = "Done" /\ Visited("NoTicket")
    /\ TitleMiss /\ BranchMiss /\ BodyStageRuns /\ ~BodyHit
    /\ outcome = "Rejected"

\* C10: a comment request always has an update request before it, and no
\* comment is requested in quiet mode or in a run that reported a failure.
CommentFollowsUpdate ==
    /\ \A k \in 1..Len(calls) :
          calls[k].kind = "comment" => \E j \in 1..(k - 1) : calls[j].kind = "update"
    /\ cfg.quiet = sTrue => Comments = <<>>
    /\ failures # <<>> => calls = <<>>

\* a finished run that requested the update and then the comment
CommentFollowsUpdateWitness ==
    /\ pc = "Done" /\ Len(calls) = 2
    /\ calls[1].kind = "update" /\ calls[2].kind = "comment"

\* the run gets past title, exemption and branch without a decision
BodyStageReached == TitleMiss /\ ~SenderExempt /\ BranchMiss

BodyPatternUsable ==
    /\ cfg.bodyRegex.given /\ cfg.bodyRegex.valid
    /\ cfg.bodyRegexFlags # <<>> /\ ValidFlags(cfg.bodyRegexFlags)

\* C11: when the body stage is reached and the body is not a text value, the
\* run ends Rejected with "Could not retrieve the Pull Request body", the body
\* pattern is tested against nothing and nothing is requested.
MissingBodyRejected ==
    (BodyStageReached /\ BodyPatternUsable /\ ctx.body.kind # "text") =>
        /\ calls = <<>>
        /\ ~Visited("NoTicket")
        /\ pc = "Done" => outcome = "Rejected" /\ failures = <<MsgNoBody>>

\* all three patterns are usable and none of title, branch and body matches
NothingReferenced ==
    /\ BodyStageReached
    /\ ctx.body.kind = "text" /\ BodyStageRuns /\ ~BodyHit

\* C12: when title, branch and a present body all fail to match and the
\* sender is not exempt, the run ends Rejected with the one failure
\* "No ticket was referenced in this pull request", a message of its own, and
\* nothing is requested.
NoReferenceRejected ==
    /\ MsgNoTicket \notin {MsgBranch, MsgBody, MsgNoBody}
    /\ NothingReferenced =>
          /\ calls = <<>>
          /\ Len(failures) <= 1
          /\ pc = "Done" => outcome = "Rejected" /\ failures = <<MsgNoTicket>>

\* a finished run over body "no ref" that matched nowhere
NoReferenceRejectedWitness ==
    /\ pc = "Done" /\ NothingReferenced /\ ctx.body.text = sNoRef
    /\ failures = <<MsgNoTicket>>

\* a required option is unset, or a pattern or its flags do not compile
ConfigurationError ==
    \/ \E o \in PatternOptions : ~cfg[o].given \/ ~cfg[o].valid
    \/ \E o \in FlagOptions : cfg[o] = <<>> \/ ~ValidFlags(cfg[o])
    \/ cfg.titleFormat = <<>>
    \/ cfg.token = <<>>

\* C13: with a configuration error the run ends with a failure and never
\* Approved, Exempted or TitleUpdated, whatever the context is.
ConfigurationErrorAborts ==
    ConfigurationError =>
        /\ calls = <<>>
        /\ outcome \in {"None", "Rejected"}
        /\ pc = "Done" => failures # <<>>

\* the text the body pattern matched
BodyMatch == Exec(cfg.bodyRegex, cfg.bodyRegexFlags, BodyText(ctx.body)).text

\* the first ticketRegex match in the whole body
WholeBodyId == Exec(cfg.ticketRegex, <<>>, BodyText(ctx.body))

\* C14: in the body stage the identifier is the first ticketRegex match inside
\* the text the body pattern matched; a match elsewhere in the body is never
\* used, and when the matched text holds none the run ends Rejected with the
\* body message and requests nothing.
IdentifierFromBodyMatch ==
    (BodyStageReached /\ BodyHit /\ TicketRegexUsable) =>
        /\ \A k \in 1..Len(Updates) :
              Updates[k].title = FormatTitle(cfg.titleFormat, cfg.ticketPrefix,
                                             BodyId.text, ctx.title)
        /\ Visited("CheckBody") =>
              /\ id = BodyId
              /\ id.found => IndexOf(BodyMatch, id.text) # 0
        /\ ~BodyId.found => calls = <<>>
        /\ pc = "Done" =>
              IF BodyId.found
              THEN outcome = "TitleUpdated(body)" /\ Len(Updates) = 1 /\ failures = <<>>
              ELSE outcome = "Rejected" /\ failures = <<MsgBody>>

\* a finished run that took TICK-9 from the matched "closes TICK-9" although
\* TICK-5 comes first in the body
IdentifierFromBodyMatchWitness ==
    /\ pc = "Done" /\ BodyStageReached /\ BodyHit /\ TicketRegexUsable
    /\ id.text = sTick9 /\ WholeBodyId.text = sTick5
    /\ Len(Updates) = 1

\* one of the three replacements, named by its placeholder
ReplaceOne(text, which, prefix, ticketId, title) ==
    CASE which = "prefix" -> Replace(text, sPrefixTok, prefix)
      [] which = "id" -> Replace(text, sIdTok, ticketId)
      [] which = "title" -> Replace(text, sTitleTok, title)

Orders ==
    {<<"prefix", "id", "title">>, <<"prefix", "title", "id">>,
     <<"id", "prefix", "title">>, <<"id", "title", "prefix">>,
     <<"title", "prefix", "id">>, <<"title", "id", "prefix">>}

\* the three replacements applied in the given order
FormatInOrder(order, titleFormat, prefix, ticketId, title) ==
    CHOOSE t3 \in {ReplaceOne(t2, order[3], prefix, ticketId, title) :
                     t2 \in {ReplaceOne(t1, order[2], prefix, ticketId, title) :
                               t1 \in {ReplaceOne(titleFormat, order[1], prefix,
                                                  ticketId, title)}}} :
        TRUE

\* C15: the replacements of %prefix%, %id% and %title% give the same new
\* title in each of the six orders as in the order prefix, id, title.
ReplacementOrderIrrelevant ==
    fmt.phase = "output" =>
        \A order \in Orders :
            FormatInOrder(order, cfg.titleFormat, cfg.ticketPrefix, id.text, ctx.title)
                = fmt.out

\* the branch pattern matches and ticketRegex finds nothing in the branch
BranchExtractionFails ==
    TitleMiss /\ ~SenderExempt /\ BranchHit /\ TicketRegexUsable /\ ~BranchId.found

\* the body pattern matches and ticketRegex finds nothing in the matched text
BodyExtractionFails ==
    BodyStageReached /\ BodyHit /\ TicketRegexUsable /\ ~BodyId.found

\* the body stage is reached and the body is undefined
BodyMissing == BodyStageReached /\ ctx.body.kind = "undefined"

\* the title pattern compiles and the token is there
TitleStageCompiles ==
    /\ cfg.titleRegex.given /\ cfg.titleRegex.valid
    /\ cfg.titleRegexFlags # <<>> /\ ValidFlags(cfg.titleRegexFlags)
    /\ cfg.token # <<>>

\* C16: a run marks at most one failure and is over once it has; a finished
\* run is Rejected exactly when it marked one; each of the four fatal
\* conditions is reported with its own message, and a missing required input,
\* a pattern that does not compile and an absent author are reported with the
\* message of the exception they raise.
FailureReportedOnce ==
    /\ Len(failures) <= 1
    /\ failures # <<>> => pc = "Done" /\ outcome = "Rejected"
    /\ pc = "Done" =>
          /\ outcome = "Rejected" <=> Len(failures) = 1
          /\ BranchExtractionFails => failures = <<MsgBranch>>
          /\ BodyExtractionFails => failures = <<MsgBody>>
          /\ BodyMissing => failures = <<MsgNoBody>>
          /\ NothingReferenced => failures = <<MsgNoTicket>>
          /\ ~cfg.titleRegex.given =>
                failures = <<"Input required and not supplied: titleRegex">>
          /\ (cfg.titleRegex.given /\ cfg.titleRegexFlags # <<>>
              /\ ValidFlags(cfg.titleRegexFlags) /\ ~cfg.titleRegex.valid) =>
                failures = <<"Invalid regular expression">>
          /\ (TitleStageCompiles /\ ~ctx.author.user) =>
                failures = <<"Cannot read property 'login' of undefined">>
          /\ (TitleMiss /\ ~SenderExempt /\ BranchHit /\ ~cfg.ticketRegex.given) =>
                failures = <<"Input required and not supplied: ticketRegex">>
          /\ (TitleMiss /\ ~SenderExempt /\ cfg.titleFormat = <<>>) =>
                failures = <<"Input required and not supplied: titleFormat">>

\* a finished run of a pull request without author, rejected with the
\* message of the exception raised on reading the login
FailureReportedOnceWitness ==
    /\ pc = "Done" /\ TitleStageCompiles /\ ~ctx.author.user
    /\ outcome = "Rejected"
    /\ failures = <<"Cannot read property 'login' of undefined">>

\* the entries expected of each exempt-user text of the configurations
ExpectedEntries(text) ==
    CASE text = <<>> -> << <<>> >>
      [] text = sFoo -> <<sFoo>>
      [] text = sFooBot -> <<sFooBot>>
      [] text = sExPadded -> <<sBar, sFoo>>

\* C17: the exempt-user text is split on commas and each entry trimmed; a run
\* that reaches the exemption check ends Exempted exactly when its sender is
\* non-empty and equal to one of the entries; an empty sender is never
\* exempted, and an unset option exempts nobody.
ExemptListParsed ==
    /\ Visited("CheckExemption") => exemptUsers = ExpectedEntries(cfg.exemptUsers)
    /\ (pc = "Done" /\ Visited("CheckExemption")) =>
          (outcome = "Exempted" <=>
             sender # <<>> /\ \E k \in 1..Len(exemptUsers) : exemptUsers[k] = sender)
    /\ outcome = "Exempted" => Visited("CheckExemption") /\ calls = <<>> /\ failures = <<>>
    /\ (Visited("CheckTitle") /\ sender = <<>>) => outcome # "Exempted"
    /\ cfg.exemptUsers = <<>> => outcome # "Exempted"

\* a finished run of an empty sender against a list whose one entry is
\* empty, not exempted
ExemptListParsedWitness ==
    /\ pc = "Done" /\ Visited("CheckExemption")
    /\ sender = <<>> /\ exemptUsers = << <<>> >>
    /\ outcome \in Outcomes \ {"Exempted"}

\* C18: in every state of a run at most one update and at most one comment
\* have been requested, never more comments than updates, never an update
\* together with a marked failure; an update is requested only in a run that
\* ends TitleUpdated, and a run that ends Approved, Exempted or Rejected has
\* requested nothing.
MutationsBounded ==
    /\ Len(Updates) <= 1
    /\ Len(Comments) <= 1
    /\ Len(Comments) <= Len(Updates)
    /\ Len(calls) = Len(Updates) + Len(Comments)
    /\ ~(failures # <<>> /\ Updates # <<>>)
    /\ (Updates # <<>> /\ pc # "Done") => pc \in {"CommentFromBranch", "CommentFromBody"}
    /\ pc = "Done" =>
          /\ Updates # <<>> <=> outcome \in {"TitleUpdated(branch)", "TitleUpdated(body)"}
          /\ outcome \in {"Approved", "Exempted", "Rejected"} => calls = <<>>

\* a finished run that updated the title from the body and commented
MutationsBoundedWitness ==
    /\ pc = "Done" /\ outcome = "TitleUpdated(body)"
    /\ Len(Updates) = 1 /\ Len(Comments) = 1 /\ failures = <<>>

\* the title matches, the sender is exempt or the branch matches
DecidedBeforeBody == TitleStageRuns /\ (TitleHit \/ SenderExempt \/ BranchHit)

\* outcome, requests and failures of a run decided before the body stage,
\* told from the title, the author, the branch and the configuration alone
EarlyResult ==
    IF TitleHit THEN <<"Approved", <<>>, <<>>>>
    ELSE IF SenderExempt THEN <<"Exempted", <<>>, <<>>>>
    ELSE IF ~cfg.ticketRegex.given
    THEN <<"Rejected", <<>>, <<"Input required and not supplied: ticketRegex">>>>
    ELSE IF ~cfg.ticketRegex.valid
    THEN <<"Rejected", <<>>, <<"Invalid regular expression">>>>
    ELSE IF ~BranchId.found THEN <<"Rejected", <<>>, <<MsgBranch>>>>
    ELSE <<"TitleUpdated(branch)",
           <<UpdateCall(FormatTitle(cfg.titleFormat, cfg.ticketPrefix,
                                    BranchId.text, ctx.title))>>
             \o (IF cfg.quiet = sTrue THEN <<>> ELSE <<CommentCall("branch name")>>),
           <<>>>>

\* C19: a run whose title matches, whose sender is exempt or whose branch
\* matches never enters the body stage and never reports the missing body,
\* and its outcome, requests and failures are those told by the title, the
\* author, the branch and the configuration, whatever the body is.
BodyIgnoredWhenDecidedEarlier ==
    DecidedBeforeBody =>
        /\ ~Visited("CheckBody")
        /\ bodyCheck = NoMatch
        /\ MsgNoBody \notin Range(failures)
        /\ pc = "Done" => <<outcome, calls, failures>> = EarlyResult

\* a finished run without body that updated the title from the branch
BodyIgnoredWhenDecidedEarlierWitness ==
    /\ pc = "Done" /\ TitleMiss /\ ~SenderExempt /\ BranchHit
    /\ ctx.body.kind = "undefined"
    /\ outcome = "TitleUpdated(branch)" /\ Len(Updates) = 1

====
